---- MODULE Spec2Model ----
(***************************************************************************)
(* Model of the handwriter text-layout engine (src/handwriter).            *)
(*                                                                         *)
(* One process loads a Font for a text and renders it with draw(); the     *)
(* renders of a process follow each other.  Canvas operations are kept as  *)
(* the sequence of paste()/line() calls made on the canvas.                *)
(*                                                                         *)
(* Floats: the bounding-box fractions are rationals <<num, den>> whose     *)
(* denominators are powers of two, for which the IEEE arithmetic of the    *)
(* source is exact; int() is truncation towards zero.                      *)
(***************************************************************************)
EXTENDS Integers, Sequences, FiniteSets

\* ------------------------------------------------------------------ bounds

\* Longest text of a process that renders once.
MaxLen == 3
\* Most draw() calls of one process.
MaxCalls == 2

\* ------------------------------------------------------- program constants

\* DrawingContext.cursor = [100, 100]
CursorStartX == 100
CursorStartY == 100
\* insert_space: cursor[0] += 60
SpaceWidth == 60
\* insert_newline: cursor[0] = 100
LeftMargin == 100
\* _estimate_biggest_canvas_size: + 200
CanvasMargin == 200

\* Python's None, and a present value, for Optional fields.
None == <<>>
Some(v) == <<v>>

\* ------------------------------------------------------------- characters

Space == " "
Newline == "\n"

\* The characters texts are made of.  str.islower / isupper / isdigit /
\* isalpha are given by the classes below.
Lowercase == {"a", "b", "c", "q", "z"}
Uppercase == {"D"}
Digits == {"1"}
Alphabet == Lowercase \cup Uppercase \cup Digits \cup {".", "@", Space, Newline}

IsLower(char) == char \in Lowercase
IsUpper(char) == char \in Uppercase
IsDigit(char) == char \in Digits
IsAlpha(char) == char \in Lowercase \cup Uppercase

\* str.lower() of an uppercase character.
Lower(char) == IF char = "D" THEN "d" ELSE char

\* The dict literal of Font._char_to_filename.
PunctuationNames ==
    [c \in {".", ",", ":", ";", "-", "\"", "!", "?"} |->
        CASE c = "." -> "dot"
          [] c = "," -> "comma"
          [] c = ":" -> "colon"
          [] c = ";" -> "semicolon"
          [] c = "-" -> "dash"
          [] c = "\"" -> "quoteopen"
          [] c = "!" -> "exclamation"
          [] c = "?" -> "question"]

\* Font._char_to_filename raises KeyError exactly when this is FALSE.
HasFilename(char) ==
    IsLower(char) \/ IsDigit(char) \/ IsUpper(char) \/ char \in DOMAIN PunctuationNames

\* Font._char_to_filename, for a character that has a file name.
CharToFilename(char) ==
    IF IsLower(char) \/ IsDigit(char) THEN char
    ELSE IF IsUpper(char) THEN "_" \o Lower(char)
    ELSE PunctuationNames[char]

\* ----------------------------------------------------------------- assets

\* A letter image of mode LA as background_remover leaves it: a pixel is
\* ink (L = 0, alpha = 255) or background (L = 255, alpha = 0).  ink is the
\* set of <<x, y>> of the ink pixels.
Image(w, h, ink) == [width |-> w, height |-> h, ink |-> ink]

\* Variations, cropped to their content: each has ink in its first and last
\* row and column.
ImgA1 == Image(40, 80, {<<0, 0>>, <<0, 50>>, <<12, 40>>, <<39, 40>>, <<39, 41>>, <<20, 79>>})
ImgA2 == Image(50, 150, {<<0, 149>>, <<3, 0>>, <<3, 20>>, <<30, 149>>, <<49, 0>>,
                         <<49, 99>>})
ImgB == Image(30, 120, {<<4, 0>>, <<4, 60>>, <<0, 90>>, <<29, 90>>, <<4, 119>>,
                        <<20, 119>>})
ImgD == Image(60, 100, {<<10, 0>>, <<0, 30>>, <<59, 0>>, <<10, 70>>, <<45, 70>>,
                        <<10, 99>>})
ImgC == Image(40, 60, {<<0, 0>>, <<39, 0>>, <<0, 59>>, <<39, 59>>})
Img1 == Image(20, 90, {<<10, 0>>, <<0, 89>>, <<19, 89>>})
ImgDot == Image(10, 10, {<<0, 0>>, <<9, 9>>})
ImgQ == Image(40, 110, {<<39, 0>>, <<0, 0>>, <<39, 109>>})

\* The *.png files of font/ready/<filename>; a directory that is missing
\* or empty globs to nothing.
ReadyImages(filename) ==
    CASE filename = "a" -> <<ImgA1, ImgA2>>
      [] filename = "b" -> <<ImgB>>
      [] filename = "_d" -> <<ImgD>>
      [] filename = "c" -> <<ImgC>>
      [] filename = "1" -> <<Img1>>
      [] filename = "dot" -> <<ImgDot>>
      [] filename = "q" -> <<ImgQ>>
      [] OTHER -> <<>>

\* bbox.ConnectionStart
FAR_RIGHT == "far_right"
FAR_RIGHT_OF_BOTTOM_HALF == "far_right_of_bottom_half"
BOTTOM == "bottom"

\* A BoundingBox as BoundingBoxesJSONDecoder.decode yields it; the
\* fractions are <<numerator, denominator>>.
BoundingBox(sx, ex, by, cs) ==
    [start_x |-> sx, end_x |-> ex, baseline_y |-> by, connection_start |-> cs]

\* font/bounding-boxes.json: an entry for some of the characters.
bounding_boxes ==
    [c \in {"a", "b", "c", "z", "D", "1", "."} |->
        CASE c = "a" -> BoundingBox(<<0, 1>>, <<1, 1>>, <<3, 4>>, Some(FAR_RIGHT))
          [] c = "b" -> BoundingBox(<<-1, 4>>, <<5, 4>>, <<1, 2>>, Some(BOTTOM))
          [] c = "D" -> BoundingBox(<<1, 4>>, <<3, 4>>, <<1, 1>>,
                                    Some(FAR_RIGHT_OF_BOTTOM_HALF))
          [] c = "c" -> BoundingBox(<<0, 1>>, <<1, 1>>, <<0, 1>>, None)
          [] c = "z" -> BoundingBox(<<0, 1>>, <<1, 1>>, <<1, 1>>, Some(FAR_RIGHT))
          [] c = "1" -> BoundingBox(<<1, 8>>, <<7, 8>>, <<7, 8>>, None)
          [] c = "." -> BoundingBox(<<1, 2>>, <<1, 4>>, <<1, 2>>, None)]

\* ------------------------------------------------------------- arithmetic

\* int(n / d) for d > 0: truncation towards zero.
Trunc(n, d) == IF n >= 0 THEN n \div d ELSE -((-n) \div d)

SetMax(S) == CHOOSE m \in S : \A n \in S : n <= m
SetMin(S) == CHOOSE m \in S : \A n \in S : m <= n

\* ------------------------------------------------------------ PIL images

\* A source image: all of its w x h pixels are real data.
\* data = <<left, upper, right, lower>> bounds the real pixels of an image;
\* Image.crop fills what lies outside them with zeros (L = 0, alpha = 0).
Pixels(img) ==
    [width |-> img.width, height |-> img.height, ink |-> img.ink,
     data |-> <<0, 0, img.width, img.height>>]

Max2(a, b) == IF a >= b THEN a ELSE b
Min2(a, b) == IF a <= b THEN a ELSE b

\* Image.crop(box), box = <<left, upper, right, lower>>, of a Pixels image.
Crop(im, box) ==
    [width |-> box[3] - box[1],
     height |-> box[4] - box[2],
     ink |-> {<<p[1] - box[1], p[2] - box[2]>> :
                p \in {q \in im.ink : /\ box[1] <= q[1] /\ q[1] < box[3]
                                      /\ box[2] <= q[2] /\ q[2] < box[4]}},
     data |-> <<Max2(im.data[1], box[1]) - box[1], Max2(im.data[2], box[2]) - box[2],
                Min2(im.data[3], box[3]) - box[1], Min2(im.data[4], box[4]) - box[2]>>]

\* The L band of pixel <<x, y>>: 0 for ink and for the zero fill, 255 for
\* background.
LBand(im, x, y) ==
    IF <<x, y>> \in im.ink THEN 0
    ELSE IF /\ im.data[1] <= x /\ x < im.data[3]
            /\ im.data[2] <= y /\ y < im.data[4] THEN 255
    ELSE 0

\* list(im.getchannel("L").getdata()).index(0): the row-major index of the
\* first pixel whose L band is 0, or None where index raises ValueError.
IndexOfZero(im) ==
    LET zeros == {p \in (0..(im.width - 1)) \X (0..(im.height - 1)) :
                    LBand(im, p[1], p[2]) = 0}
    IN IF zeros = {} THEN None
       ELSE LET y == SetMin({p[2] : p \in zeros})
                x == SetMin({p[1] : p \in {q \in zeros : q[2] = y}})
            IN Some(y * im.width + x)

\* Image.getbbox(): the box <<left, upper, right, lower>> of the pixels
\* that are not transparent, or None when there is none.
GetBBox(im) ==
    IF im.ink = {} THEN None
    ELSE Some(<<SetMin({p[1] : p \in im.ink}), SetMin({p[2] : p \in im.ink}),
                SetMax({p[1] : p \in im.ink}) + 1, SetMax({p[2] : p \in im.ink}) + 1>>)

\* --------------------------------------------------------- LetterVariation

\* What a computation yields: a value, or the exception it raises.
Ok(v) == [error |-> "none", value |-> v]
Raise(e) == [error |-> e, value |-> None]

\* LetterVariation.find_connection_start_coords
FindConnectionStartCoords(char, image, bbox) ==
    LET im == Pixels(image)
        half == image.height \div 2
    IN
    IF ~IsAlpha(char) THEN Raise("InvalidLetterInterconnectionError")
    ELSE IF bbox.connection_start = Some(FAR_RIGHT) THEN
        LET slice == Crop(im, <<image.width - 1, 0, image.width, image.height>>)
            idx == IndexOfZero(slice)
        IN Ok(<<image.width, IF idx = None THEN half ELSE idx[1]>>)
    ELSE IF bbox.connection_start = Some(BOTTOM) THEN
        LET slice == Crop(im, <<0, image.height - 1, image.width, image.height>>)
            idx == IndexOfZero(slice)
        IN Ok(<<IF idx = None THEN image.width \div 2 ELSE idx[1], image.height>>)
    ELSE IF bbox.connection_start = Some(FAR_RIGHT_OF_BOTTOM_HALF) THEN
        LET bottom_half == Crop(im, <<0, half, image.width, image.height>>)
            bottom_half_bbox == GetBBox(bottom_half)
        IN IF bottom_half_bbox = None THEN Raise("AssertionError")
           ELSE LET rightmost_nonempty_x == bottom_half_bbox[1][4]
                    slice == Crop(bottom_half,
                                  <<rightmost_nonempty_x - 1, 0,
                                    rightmost_nonempty_x, bottom_half.height>>)
                    idx == IndexOfZero(slice)
                IN Ok(<<rightmost_nonempty_x,
                        IF idx = None THEN half
                        ELSE (image.height + 2 * idx[1]) \div 2>>)
    ELSE Raise("UnboundLocalError")

\* LetterVariation.find_connection_end_coords
FindConnectionEndCoords(char, image, bbox) ==
    LET im == Pixels(image)
    IN
    IF ~IsAlpha(char) THEN Raise("InvalidLetterInterconnectionError")
    ELSE
        LET part_above_baseline ==
                Crop(im, <<0, 0, image.width,
                           Trunc(bbox.baseline_y[1] * image.height, bbox.baseline_y[2])>>)
            part_above_baseline_bbox == GetBBox(part_above_baseline)
        IN IF part_above_baseline_bbox = None THEN Raise("AssertionError")
           ELSE LET leftmost_nonempty_x == part_above_baseline_bbox[1][1]
                    slice == Crop(part_above_baseline,
                                  <<leftmost_nonempty_x, 0,
                                    leftmost_nonempty_x + 1, part_above_baseline.height>>)
                    idx == IndexOfZero(slice)
                IN Ok(<<leftmost_nonempty_x,
                        IF idx = None THEN image.height \div 2 ELSE idx[1]>>)

\* ------------------------------------------------------------------- Font

RECURSIVE SeqToSet(_)
SeqToSet(s) == IF s = <<>> THEN {} ELSE {Head(s)} \cup SeqToSet(Tail(s))

\* set(text.replace(" ", "").replace("\n", ""))
Letters(txt) == SeqToSet(txt) \ {Space, Newline}

\* Characters without a file name are left out of the font.
FontLoad_SkipsUnsupported(txt) ==
    Ok([letter \in {c \in Letters(txt) : HasFilename(c)} |->
            ReadyImages(CharToFilename(letter))])

\* Font.load: the font's dict, KeyError from _char_to_filename, or
\* SystemExit where the "no images" check fires.  The check tests the whole
\* dict, which holds the letter's key by then.
FontLoad(txt) ==
    LET letters == Letters(txt)
        letters_images == [letter \in letters |-> ReadyImages(CharToFilename(letter))]
    IN IF \E letter \in letters : ~HasFilename(letter) THEN Raise("KeyError")
       ELSE IF letters # {} /\ DOMAIN letters_images = {} THEN Raise("SystemExit")
       ELSE Ok(letters_images)

\* Font.line_height: max() of an empty sequence raises ValueError.
LineHeight(dict) ==
    IF DOMAIN dict = {} \/ \E letter \in DOMAIN dict : dict[letter] = <<>>
    THEN Raise("ValueError")
    ELSE Ok(SetMax({SetMax({dict[letter][i].height : i \in DOMAIN dict[letter]}) :
                      letter \in DOMAIN dict}))

\* ---------------------------------------------------------------- canvas

\* text.split("\n"): the lines of a text, as sequences of characters.
RECURSIVE Split(_)
Split(txt) ==
    IF \A i \in DOMAIN txt : txt[i] # Newline THEN <<txt>>
    ELSE LET n == SetMin({i \in DOMAIN txt : txt[i] = Newline})
         IN <<SubSeq(txt, 1, n - 1)>> \o Split(SubSeq(txt, n + 1, Len(txt)))

\* The lines are counted, not the newlines.
CountNewlines_CountsLines(txt) == Cardinality({i \in DOMAIN txt : txt[i] = Newline}) + 1

\* text.count("\n")
CountNewlines(txt) == Cardinality({i \in DOMAIN txt : txt[i] = Newline})

\* sum(map(lambda char: max_letter_widths[char], line.replace(" ", ""))), or
\* None where a character of the line is no key of max_letter_widths.
RECURSIVE SumWidths(_, _)
SumWidths(line, max_letter_widths) ==
    IF line = <<>> THEN 0
    ELSE IF Head(line) = Space THEN SumWidths(Tail(line), max_letter_widths)
    ELSE max_letter_widths[Head(line)] + SumWidths(Tail(line), max_letter_widths)

\* _estimate_biggest_canvas_size: <<width, height>>, or the exception of a
\* max() over no variations (ValueError) or of a character the font does
\* not hold (KeyError).
EstimateBiggestCanvasSize(dict, txt) ==
    IF \E letter \in DOMAIN dict : dict[letter] = <<>> THEN Raise("ValueError")
    ELSE IF \E i \in DOMAIN txt : txt[i] \notin DOMAIN dict \cup {Space, Newline}
    THEN Raise("KeyError")
    ELSE
        LET max_letter_widths ==
                [letter \in DOMAIN dict |->
                    SetMax({dict[letter][i].width : i \in DOMAIN dict[letter]})]
            lines == Split(txt)
            max_canvas_width ==
                SetMax({SumWidths(lines[i], max_letter_widths) : i \in DOMAIN lines})
            line_height == LineHeight(dict)
        IN IF line_height.error # "none" THEN line_height
           ELSE LET max_canvas_height == line_height.value * CountNewlines(txt)
                IN Ok(<<max_canvas_width + CanvasMargin,
                        max_canvas_height * 2 + CanvasMargin>>)

\* ------------------------------------------------------- DrawingContext

\* DrawingContext(canvas, font, drawer, debug) as draw builds it.  cursor
\* is the class attribute: the one list every DrawingContext shares, so it
\* is handed in.  The canvas is the sequence of its paste() calls, the
\* drawer the sequences of its line() calls.
NewContext(size, debug_flag, class_cursor) ==
    [canvas_size |-> size,
     pastes |-> <<>>,
     lines |-> <<>>,
     debug_lines |-> <<>>,
     debug |-> debug_flag,
     cursor |-> class_cursor,
     baseline_y |-> None,
     connection_start |-> None]

\* The space also forgets the baseline of the line.
InsertSpace_ClearsBaseline(ctx) ==
    [ctx EXCEPT !.cursor[1] = @ + SpaceWidth,
                !.baseline_y = None,
                !.connection_start = None]

\* The pending connection survives the space.
InsertSpace_KeepsConnection(ctx) == [ctx EXCEPT !.cursor[1] = @ + SpaceWidth]

\* DrawingContext.insert_space
InsertSpace(ctx) ==
    [ctx EXCEPT !.cursor[1] = @ + SpaceWidth, !.connection_start = None]

\* DrawingContext.insert_newline
InsertNewline(ctx, dict) ==
    [ctx EXCEPT !.cursor = <<LeftMargin, @[2] + LineHeight(dict).value>>,
                !.baseline_y = None,
                !.connection_start = None]

\* The y of the placement origin is not added.
AddCoords_DropsY(i, j) == <<i[1] + j[1], i[2]>>

\* _add_coords
AddCoords(i, j) == <<i[1] + j[1], i[2] + j[2]>>

\* Every glyph anchors the baseline anew.
BaselineAfter_Reanchors(ctx, image, bbox) ==
    Trunc(ctx.cursor[2] * bbox.baseline_y[2] + bbox.baseline_y[1] * image.height,
          bbox.baseline_y[2])

\* The baseline _get_variation_start_coords leaves in the context.
BaselineAfter(ctx, image, bbox) ==
    IF ctx.baseline_y = None
    THEN Trunc(ctx.cursor[2] * bbox.baseline_y[2] + bbox.baseline_y[1] * image.height,
               bbox.baseline_y[2])
    ELSE ctx.baseline_y[1]

\* The glyph is put at the cursor's y, whatever the baseline of the line.
GetVariationStartCoords_AtCursorY(ctx, image, bbox) ==
    <<Trunc(ctx.cursor[1] * bbox.start_x[2] - bbox.start_x[1] * image.width,
            bbox.start_x[2]),
      ctx.cursor[2]>>

\* In debug mode the glyph makes room for its outline.
GetVariationStartCoords_DebugOffset(ctx, image, bbox) ==
    <<Trunc(ctx.cursor[1] * bbox.start_x[2] - bbox.start_x[1] * image.width,
            bbox.start_x[2]) + (IF ctx.debug THEN 1 ELSE 0),
      Trunc(BaselineAfter(ctx, image, bbox) * bbox.baseline_y[2]
                - image.height * bbox.baseline_y[1],
            bbox.baseline_y[2])>>

\* _get_variation_start_coords: <<int(start_x), int(start_y)>>
GetVariationStartCoords(ctx, image, bbox) ==
    <<Trunc(ctx.cursor[1] * bbox.start_x[2] - bbox.start_x[1] * image.width,
            bbox.start_x[2]),
      Trunc(BaselineAfter(ctx, image, bbox) * bbox.baseline_y[2]
                - image.height * bbox.baseline_y[1],
            bbox.baseline_y[2])>>

\* The cursor advances by the pixel width of the image.
AdvanceWidth_PixelWidth(image, bbox) == image.width

\* width = int(image.width * (bbox.end_x - bbox.start_x))
AdvanceWidth(image, bbox) ==
    Trunc(image.width * (bbox.end_x[1] * bbox.start_x[2] - bbox.start_x[1] * bbox.end_x[2]),
          bbox.end_x[2] * bbox.start_x[2])

\* _draw_debug_lines: the line() calls it makes, x and y as <<num, den>>.
DrawDebugLines(ctx, char_n, image, bbox, start_coords) ==
    LET den == bbox.end_x[2]
        start_x == <<start_coords[1] * den, den>>
        end_x == <<start_coords[1] * den + image.width * bbox.end_x[1], den>>
        end_y == <<start_coords[2] + image.height, 1>>
        top_y == <<start_coords[2], 1>>
    IN (IF char_n = 0
        THEN <<[char_n |-> char_n, fill |-> "red",
                xy |-> <<<<0, 1>>, end_y, <<ctx.canvas_size[1], 1>>, end_y>>]>>
        ELSE <<>>)
       \o <<[char_n |-> char_n, fill |-> "red", xy |-> <<end_x, end_y, end_x, top_y>>],
            [char_n |-> char_n, fill |-> "blue", xy |-> <<start_x, end_y, start_x, top_y>>],
            [char_n |-> char_n, fill |-> "blue", xy |-> <<start_x, end_y, end_x, end_y>>]>>

\* ------------------------------------------------------------- _draw_char

\* A context with the exception that left _draw_char, if any.
Outcome(ctx, e) == [context |-> ctx, error |-> e]

\* The try block of _draw_char, entered with the glyph pasted and the
\* cursor advanced: the connector line from the pending point, then the
\* pending point of this glyph.  InvalidLetterInterconnectionError clears
\* the pending point; any other exception leaves _draw_char.
Connect(ctx, char, char_n, image, bbox, start_coords) ==
    LET end == FindConnectionEndCoords(char, image, bbox)
        start == FindConnectionStartCoords(char, image, bbox)
        drawn ==
            IF ctx.connection_start # None /\ end.error = "none"
            THEN [ctx EXCEPT !.lines =
                    Append(@, [char_n |-> char_n,
                               xy |-> <<ctx.connection_start[1],
                                        AddCoords(end.value, start_coords)>>])]
            ELSE ctx
    IN IF ctx.connection_start # None /\ end.error # "none"
       THEN IF end.error = "InvalidLetterInterconnectionError"
            THEN Outcome([ctx EXCEPT !.connection_start = None], "none")
            ELSE Outcome(ctx, end.error)
       ELSE IF start.error = "none"
            THEN Outcome([drawn EXCEPT !.connection_start =
                            Some(AddCoords(start.value, start_coords))], "none")
            ELSE IF start.error = "InvalidLetterInterconnectionError"
            THEN Outcome([drawn EXCEPT !.connection_start = None], "none")
            ELSE Outcome(drawn, start.error)

\* _draw_char from the variation on: the glyph is placed, pasted and
\* connected.
PlaceVariation(ctx, char, char_n, image, bbox) ==
        LET start_coords == GetVariationStartCoords(ctx, image, bbox)
            width == AdvanceWidth(image, bbox)
            pasted ==
                [ctx EXCEPT
                    !.baseline_y = Some(BaselineAfter(ctx, image, bbox)),
                    !.pastes = Append(@, [char_n |-> char_n, image |-> image,
                                          box |-> start_coords]),
                    !.debug_lines =
                        IF ctx.debug
                        THEN @ \o DrawDebugLines(ctx, char_n, image, bbox, start_coords)
                        ELSE @,
                    !.cursor[1] = @ + width]
        IN Connect(pasted, char, char_n, image, bbox, start_coords)

\* A character without metadata is passed over.
DrawGlyph_SkipsWithoutMetadata(ctx, char, char_n, image) ==
    IF char \notin DOMAIN bounding_boxes THEN Outcome(ctx, "none")
    ELSE PlaceVariation(ctx, char, char_n, image, bounding_boxes[char])

\* _draw_char for a character that is neither a space nor a newline, with
\* the image random.choice picked: letter_variation raises KeyError for a
\* character without an entry in the bounding boxes.
DrawGlyph(ctx, char, char_n, image) ==
    IF char \notin DOMAIN bounding_boxes THEN Outcome(ctx, "KeyError")
    ELSE PlaceVariation(ctx, char, char_n, image, bounding_boxes[char])

\* _draw_char
DrawChar(ctx, dict, char, char_n, image) ==
    IF char = Space THEN Outcome(InsertSpace(ctx), "none")
    ELSE IF char = Newline THEN Outcome(InsertNewline(ctx, dict), "none")
    ELSE DrawGlyph(ctx, char, char_n, image)

\* ------------------------------------------------------------------ state

VARIABLES
    renders,    \* how many renders this process makes
    render_n,   \* the render it is at, from 1
    text,       \* the text of this render
    debug,      \* the debug flag of this render
    pc,         \* "load", "draw", "chars", "done" or "failed"
    font,       \* Font.dict once loaded
    char_n,     \* enumerate(text): characters _draw_char has been called for
    context,    \* the DrawingContext of this render
    error,      \* the exception that ended this render
    twin        \* this draw call as it goes with the other debug flag

vars == <<renders, render_n, text, debug, pc, font, char_n, context, error, twin>>

NoError == [type |-> "none", raised_in |-> "none"]
Error(e, f) == [type |-> e, raised_in |-> f]

\* The texts of at most n characters.
Texts(n) == UNION {[1..k -> Alphabet] : k \in 0..n}

\* The texts of a process that renders more than once.
RepeatTexts ==
    {<<"a">>, <<"a", "b">>, <<Space, "D">>, <<Newline, "1">>, <<"b", Newline>>,
     <<"a", Space, "b">>}

\* Before a draw call there is no DrawingContext, only the class attribute.
ClassOnly(class_cursor) == [cursor |-> class_cursor]

Init ==
    /\ renders \in 1..MaxCalls
    /\ render_n = 1
    /\ text \in IF renders = 1 THEN Texts(MaxLen) ELSE RepeatTexts
    /\ debug \in BOOLEAN
    /\ pc = "load"
    /\ font = None
    /\ char_n = 0
    /\ context = ClassOnly(<<CursorStartX, CursorStartY>>)
    /\ error = NoError
    /\ twin = Outcome(ClassOnly(<<CursorStartX, CursorStartY>>), "none")

\* __main__: font = Font.load(text)
Load ==
    /\ pc = "load"
    /\ LET loaded == FontLoad(text)
       IN IF loaded.error = "none"
          THEN /\ font' = loaded.value
               /\ pc' = "draw"
               /\ error' = error
          ELSE /\ font' = font
               /\ pc' = "failed"
               /\ error' = Error(loaded.error, "Font.load")
    /\ UNCHANGED <<renders, render_n, text, debug, char_n, context, twin>>

\* draw, up to its loop: the canvas is sized and the context built.
DrawStart ==
    /\ pc = "draw"
    /\ LET size == EstimateBiggestCanvasSize(font, text)
       IN IF size.error = "none"
          THEN /\ context' = NewContext(size.value, debug, context.cursor)
               /\ twin' = Outcome(NewContext(size.value, ~debug, context.cursor), "none")
               /\ pc' = "chars"
               /\ error' = error
          ELSE /\ UNCHANGED <<context, twin>>
               /\ pc' = "failed"
               /\ error' = Error(size.error, "_estimate_biggest_canvas_size")
    /\ char_n' = 0
    /\ UNCHANGED <<renders, render_n, text, debug, font>>

\* One round of draw's loop, _draw_char having drawn with image.
Drawn(image) ==
    LET char == text[char_n + 1]
        out == DrawChar(context, font, char, char_n, image)
    IN /\ context' = out.context
       /\ twin' = DrawChar(twin.context, font, char, char_n, image)
       /\ IF out.error = "none"
          THEN /\ pc' = pc
               /\ error' = error
          ELSE /\ pc' = "failed"
               /\ error' = Error(out.error, "_draw_char")
       /\ char_n' = char_n + 1
       /\ UNCHANGED <<renders, render_n, text, debug, font>>

\* draw's loop at a space.
DrawSpace ==
    /\ pc = "chars" /\ char_n < Len(text)
    /\ text[char_n + 1] = Space
    /\ Drawn(None)

\* draw's loop at a newline.
DrawNewline ==
    /\ pc = "chars" /\ char_n < Len(text)
    /\ text[char_n + 1] = Newline
    /\ Drawn(None)

\* draw's loop at any other character: letter_variation picks one of the
\* character's images at random.
DrawLetter ==
    /\ pc = "chars" /\ char_n < Len(text)
    /\ text[char_n + 1] \notin {Space, Newline}
    /\ \E i \in DOMAIN font[text[char_n + 1]] : Drawn(font[text[char_n + 1]][i])

\* draw returns the canvas.
DrawReturn ==
    /\ pc = "chars" /\ char_n = Len(text)
    /\ pc' = "done"
    /\ UNCHANGED <<renders, render_n, text, debug, font, char_n, context, error, twin>>

\* The process goes on to its next render, of another text.  Nothing in the
\* repository catches an exception of a render: it ends the process.
NextRender ==
    /\ pc = "done"
    /\ render_n < renders
    /\ render_n' = render_n + 1
    /\ text' \in RepeatTexts
    /\ debug' \in BOOLEAN
    /\ pc' = "load"
    /\ font' = None
    /\ char_n' = 0
    /\ context' = ClassOnly(context.cursor)
    /\ error' = NoError
    /\ twin' = Outcome(ClassOnly(context.cursor), "none")
    /\ UNCHANGED renders

Next ==
    \/ Load
    \/ DrawStart
    \/ DrawSpace
    \/ DrawNewline
    \/ DrawLetter
    \/ DrawReturn
    \/ NextRender

Spec == Init /\ [][Next]_vars

\* ----------------------------------------------------------------- claims

\* draw has built its DrawingContext: the canvas exists.
HasContext == "pastes" \in DOMAIN context

\* The characters of the text that need a glyph.
Required == {text[i] : i \in DOMAIN text} \ {Space, Newline}

\* Font.load raised, so __main__ never called draw.
FailedInLoad == pc = "failed" /\ error.raised_in = "Font.load"

\* C1: every glyph pasted lies within the canvas sized before layout:
\* 0 <= px, 0 <= py, px + w <= canvas width, py + h <= canvas height.
C1_CanvasNeverUnderestimated ==
    HasContext =>
        \A i \in DOMAIN context.pastes :
            LET p == context.pastes[i]
            IN /\ 0 <= p.box[1]
               /\ 0 <= p.box[2]
               /\ p.box[1] + p.image.width <= context.canvas_size[1]
               /\ p.box[2] + p.image.height <= context.canvas_size[2]

\* C2: at the start of every draw call the cursor is (100, 100), the
\* baseline is unset and no connection is pending.
C2_FreshLayoutStatePerDraw ==
    (pc = "chars" /\ char_n = 0) =>
        /\ context.cursor = <<CursorStartX, CursorStartY>>
        /\ context.baseline_y = None
        /\ context.connection_start = None

\* C3: Font.load fails whenever a required character of the text has no
\* variation image.
C3_LoadFailsWithoutImages ==
    (\E c \in Required : HasFilename(c) /\ ReadyImages(CharToFilename(c)) = <<>>)
        => (pc = "load" \/ FailedInLoad)

\* A required character has no entry in the bounding-box metadata.
MissingMetadata == \E c \in Required : c \notin DOMAIN bounding_boxes

\* C4, as claimed: Font.load fails whenever a required character has no
\* bounding-box entry, so no glyph of such a text is ever pasted.
C4_LoadFailsWithoutMetadata ==
    MissingMetadata => (pc = "load" \/ FailedInLoad)

\* The position in the text of its first character without metadata.
FirstMissing ==
    SetMin({i \in DOMAIN text : text[i] \notin DOMAIN bounding_boxes \cup {Space, Newline}})

\* C4, amended: Font.load never fails for missing metadata; draw fails at
\* lookup time, with KeyError from letter_variation when its loop reaches
\* the first character without a bounding-box entry, the glyphs before it
\* pasted by then; draw never returns a canvas for such a text.
C4_FailsAtLookup ==
    MissingMetadata =>
        /\ pc # "done"
        /\ FailedInLoad => \E c \in Required : ~HasFilename(c)
        /\ HasContext => char_n <= FirstMissing
        /\ (HasContext /\ char_n = FirstMissing) =>
            /\ pc = "failed"
            /\ error = Error("KeyError", "_draw_char")
            /\ Len(context.pastes) =
                 Cardinality({i \in 1..(FirstMissing - 1) : text[i] \notin {Space, Newline}})

\* A render failed at the lookup of a character without metadata after it
\* had pasted an earlier glyph.
C4_Witness ==
    /\ MissingMetadata
    /\ pc = "failed"
    /\ error = Error("KeyError", "_draw_char")
    /\ Len(context.pastes) >= 1

\* The supported characters: lowercase letters, digits, uppercase letters
\* and . , : ; - " ! ?
Supported(c) ==
    \/ c \in Lowercase \cup Digits \cup Uppercase
    \/ c \in {".", ",", ":", ";", "-", "\"", "!", "?"}

\* C5: a text with an unsupported character, at any position, fails in
\* Font.load with KeyError: draw is never entered, no image is placed.
C5_UnsupportedFailsBeforePlacement ==
    (\E c \in Required : ~Supported(c)) =>
        /\ ~HasContext
        /\ pc # "load" => (FailedInLoad /\ error.type = "KeyError")
        /\ font = None

\* An unsupported character that is not the first of its text made
\* Font.load fail.
C5_Witness ==
    /\ FailedInLoad
    /\ Len(text) >= 2
    /\ Supported(text[1])
    /\ ~Supported(text[Len(text)])
    /\ text[Len(text)] \notin {Space, Newline}

\* The widest variation of a character, from the assets.
MaxVariationWidth(c) ==
    LET images == ReadyImages(CharToFilename(c))
    IN SetMax({images[i].width : i \in DOMAIN images})

\* The sum over the characters at positions from..to of the text, spaces
\* left out, of the character's widest variation.
RECURSIVE LineWidth(_, _)
LineWidth(from, to) ==
    IF from > to THEN 0
    ELSE (IF text[to] = Space THEN 0 ELSE MaxVariationWidth(text[to]))
         + LineWidth(from, to - 1)

\* The lines of the text as <<first, last>> positions: the stretches
\* between two consecutive newlines (or the ends of the text).
LineSpans ==
    LET breaks == {0, Len(text) + 1} \cup {i \in DOMAIN text : text[i] = Newline}
    IN {<<b + 1, e - 1>> : <<b, e>> \in
          {be \in breaks \X breaks :
              be[1] < be[2] /\ \A k \in breaks : ~(be[1] < k /\ k < be[2])}}

\* The tallest variation of all characters of the text.
TallestVariation ==
    SetMax(UNION {{ReadyImages(CharToFilename(c))[i].height :
                     i \in DOMAIN ReadyImages(CharToFilename(c))} : c \in Required})

\* C6: the canvas is (max over the lines of the sum of the widest
\* variations of the line's characters, spaces removed) + 200 wide and
\* line_height x newlines x 2 + 200 high; 200 high for a text of one line.
C6_EstimateFormula ==
    HasContext =>
        /\ context.canvas_size[1] =
              SetMax({LineWidth(span[1], span[2]) : span \in LineSpans}) + 200
        /\ context.canvas_size[2] =
              TallestVariation * Cardinality({i \in DOMAIN text : text[i] = Newline}) * 2 + 200
        /\ (\A i \in DOMAIN text : text[i] # Newline) => context.canvas_size[2] = 200

\* A canvas was sized for a text of two lines of different widths with a
\* space in it.
C6_Witness ==
    /\ HasContext
    /\ \E i \in DOMAIN text : text[i] = Newline
    /\ \E i \in DOMAIN text : text[i] = Space
    /\ context.canvas_size[1] > 200
    /\ context.canvas_size[2] > 200

\* C7: with debug = False no connector line is drawn onto the canvas: the
\* canvas draw returns carries none.
C7_ConnectorsDebugOnly ==
    (pc = "done" /\ ~debug) => context.lines = <<>>

\* The layout state and the canvas placements of a context.
Placement(ctx) ==
    <<ctx.canvas_size, ctx.cursor, ctx.baseline_y, ctx.connection_start, ctx.pastes,
      ctx.lines>>

\* C8: the draw call with the other debug flag, given the same variation
\* choices, is at every step at the same cursor, baseline and pending
\* connection, has pasted the same glyphs at the same origins and ends the
\* same way.
C8_DebugKeepsPlacement ==
    HasContext =>
        /\ twin.context.debug = ~debug
        /\ Placement(twin.context) = Placement(context)
        /\ (error.raised_in = "_draw_char" => twin.error = error.type)
        /\ (error = NoError => twin.error = "none")

\* A debug render has pasted two glyphs and drawn its overlays, which the
\* other run has not.
C8_Witness ==
    /\ HasContext
    /\ debug
    /\ Len(context.pastes) >= 2
    /\ context.debug_lines # <<>>
    /\ twin.context.debug_lines = <<>>
    /\ context.cursor # <<CursorStartX, CursorStartY>>

\* C9: a connector line drawn at the character of index i (from 0) has
\* i > 0 and alphabetic characters at i - 1 and i.
C9_ConnectorsJoinLetters ==
    HasContext =>
        \A k \in DOMAIN context.lines :
            LET i == context.lines[k].char_n
            IN /\ i > 0
               /\ IsAlpha(text[i])
               /\ IsAlpha(text[i + 1])

\* A connector was drawn in a text that also holds a space or a digit,
\* and a text with letters on both sides of a space ended with none.
C9_Witness ==
    /\ HasContext
    /\ context.lines # <<>>
    /\ \E i \in DOMAIN text : text[i] \in {Space, "1"}

C9_WitnessNone ==
    /\ pc = "done"
    /\ text = <<"a", Space, "b">>
    /\ context.lines = <<>>

\* The character is alphabetic and declares a connection_start strategy.
Connectable(c) ==
    /\ IsAlpha(c)
    /\ c \in DOMAIN bounding_boxes
    /\ bounding_boxes[c].connection_start # None

\* The image-local start and ending points of a pasted glyph, translated
\* by its placement origin.
TranslatedStart(p) ==
    LET pt == FindConnectionStartCoords(text[p.char_n + 1], p.image,
                                        bounding_boxes[text[p.char_n + 1]]).value
    IN <<pt[1] + p.box[1], pt[2] + p.box[2]>>

TranslatedEnd(p) ==
    LET pt == FindConnectionEndCoords(text[p.char_n + 1], p.image,
                                      bounding_boxes[text[p.char_n + 1]]).value
    IN <<pt[1] + p.box[1], pt[2] + p.box[2]>>

\* C10: after a connectable character is placed the pending point is its
\* translated start point; and for adjacent connectable characters a, b
\* exactly one connector is drawn while placing b, from a's translated
\* start point to b's translated ending point.
C10_ConnectorOfAdjacentLetters ==
    HasContext =>
        /\ \A k \in DOMAIN context.pastes :
              LET p == context.pastes[k]
              IN (/\ p.char_n = char_n - 1
                  /\ Connectable(text[p.char_n + 1])
                  /\ error = NoError)
                 => context.connection_start = Some(TranslatedStart(p))
        /\ \A k \in DOMAIN context.pastes :
              LET q == context.pastes[k]
              IN (/\ k > 1
                  /\ context.pastes[k - 1].char_n = q.char_n - 1
                  /\ Connectable(text[q.char_n])
                  /\ Connectable(text[q.char_n + 1]))
                 => SelectSeq(context.lines, LAMBDA l : l.char_n = q.char_n)
                      = <<[char_n |-> q.char_n,
                           xy |-> <<TranslatedStart(context.pastes[k - 1]),
                                    TranslatedEnd(q)>>]>>

\* Two adjacent connectable letters were placed: one connector drawn, the
\* second letter's start point pending.
C10_Witness ==
    /\ pc = "done"
    /\ text = <<"a", "b">>
    /\ Len(context.lines) = 1
    /\ context.connection_start # None

\* The glyph pasted for the character _draw_char was last called for.
JustPlaced(p) == p.char_n = char_n - 1

\* The baseline_y fraction of the character of a pasted glyph.
BaselineFraction(p) == bounding_boxes[text[p.char_n + 1]].baseline_y

\* C11, as claimed: start_y + baseline_y fraction x image height of a
\* placed glyph equals the baseline of its line, whatever the fraction and
\* the height.
C11_GlyphOnBaseline ==
    HasContext =>
        \A k \in DOMAIN context.pastes :
            LET p == context.pastes[k]
                f == BaselineFraction(p)
            IN JustPlaced(p) =>
                 p.box[2] * f[2] + f[1] * p.image.height = context.baseline_y[1] * f[2]

\* C11, amended: start_y is int(baseline - fraction x height), so start_y
\* + fraction x height is less than one pixel away from the baseline of
\* the line, and on it when fraction x height is a whole number.
C11_GlyphWithinPixelOfBaseline ==
    HasContext =>
        \A k \in DOMAIN context.pastes :
            LET p == context.pastes[k]
                f == BaselineFraction(p)
                off == p.box[2] * f[2] + f[1] * p.image.height - context.baseline_y[1] * f[2]
            IN JustPlaced(p) =>
                 /\ -f[2] < off /\ off < f[2]
                 /\ (f[1] * p.image.height) % f[2] = 0 => off = 0

\* A glyph whose fraction x height is no whole number was placed second on
\* its line, off the baseline by a part of a pixel.
C11_Witness ==
    /\ HasContext
    /\ \E k \in DOMAIN context.pastes :
          LET p == context.pastes[k]
              f == BaselineFraction(p)
          IN /\ JustPlaced(p)
             /\ k > 1
             /\ context.pastes[k - 1].char_n = p.char_n - 1
             /\ (f[1] * p.image.height) % f[2] # 0
             /\ p.box[2] * f[2] + f[1] * p.image.height # context.baseline_y[1] * f[2]

\* C12: for the empty text and for a text of spaces and newlines only,
\* Font.load followed by draw does not fail: it completes with a canvas.
C12_TextWithoutGlyphsCompletes ==
    (\A i \in DOMAIN text : text[i] \in {Space, Newline}) => pc # "failed"

\* _draw_char is about to process the character c.
Processing(c) == pc = "chars" /\ char_n < Len(text) /\ text[char_n + 1] = c

\* C13: processing a space adds exactly 60 to cursor x, sets the pending
\* connection to none and leaves cursor y, the baseline and the canvas
\* (its size, pasted glyphs, connector and debug lines) as they were, also
\* where the baseline is unset.
C13_SpaceFrame ==
    [][Processing(Space) =>
          /\ HasContext'
          /\ context'.cursor = <<context.cursor[1] + 60, context.cursor[2]>>
          /\ context'.connection_start = None
          /\ context'.baseline_y = context.baseline_y
          /\ context'.canvas_size = context.canvas_size
          /\ context'.pastes = context.pastes
          /\ context'.lines = context.lines
          /\ context'.debug_lines = context.debug_lines
          /\ error' = NoError
          /\ pc' = "chars"]_vars

\* Spaces were processed before the first glyph of a line, the baseline
\* unset, and after a letter whose pending connection they cleared.
C13_Witness ==
    /\ HasContext
    /\ char_n = 3
    /\ text[1] = Space
    /\ IsAlpha(text[2])
    /\ text[3] = Space
    /\ context.baseline_y # None
    /\ context.connection_start = None
    /\ \E p \in {context.pastes[k] : k \in DOMAIN context.pastes} :
          context.cursor[1] = CursorStartX + 60 + AdvanceWidth(p.image, bounding_boxes[text[2]]) + 60

\* The newlines among the characters processed so far.
NewlinesProcessed == Cardinality({i \in 1..char_n : text[i] = Newline})

\* C14: processing a newline sets cursor x to 100, adds the height of the
\* tallest loaded variation to cursor y and clears the baseline and the
\* pending connection; hence after k newlines cursor y is 100 + k x that
\* height, whatever the lines contain.
C14_NewlineStep ==
    /\ [][Processing(Newline) =>
            /\ HasContext'
            /\ context'.cursor = <<100, context.cursor[2] + TallestVariation>>
            /\ context'.baseline_y = None
            /\ context'.connection_start = None
            /\ error' = NoError]_vars
    /\ [](HasContext => context.cursor[2] = 100 + NewlinesProcessed * TallestVariation)

\* The position in the text of the last newline processed, 0 if none.
LineStart == SetMax({0} \cup {i \in 1..char_n : text[i] = Newline})

\* The glyphs placed on the current line, in order.
LinePastes == SelectSeq(context.pastes, LAMBDA p : p.char_n >= LineStart)

\* C15, as claimed: the baseline is unset while no glyph is placed on the
\* current line, and from the first glyph of the line on it is cursor.y +
\* baseline_y x image height of that first glyph, through every later glyph
\* and space of the line.
C15_BaselineOfFirstGlyph ==
    HasContext =>
        IF LinePastes = <<>> THEN context.baseline_y = None
        ELSE LET first == LinePastes[1]
                 f == BaselineFraction(first)
             IN /\ context.baseline_y # None
                /\ context.baseline_y[1] * f[2]
                     = context.cursor[2] * f[2] + f[1] * first.image.height

\* C15, amended: the same with the baseline fixed to int(cursor.y +
\* baseline_y x image height) of the first glyph of the line, truncated.
C15_BaselineTruncated ==
    HasContext =>
        IF LinePastes = <<>> THEN context.baseline_y = None
        ELSE LET first == LinePastes[1]
                 f == BaselineFraction(first)
             IN context.baseline_y
                  = Some(Trunc(context.cursor[2] * f[2] + f[1] * first.image.height, f[2]))

\* After a newline two glyphs were placed on a line; the first one's
\* fraction x height is no whole number, and the second one alone would
\* have anchored the baseline elsewhere.
C15_Witness ==
    /\ HasContext
    /\ LineStart > 0
    /\ Len(LinePastes) >= 2
    /\ LET first == LinePastes[1]
           last == LinePastes[Len(LinePastes)]
       IN /\ (BaselineFraction(first)[1] * first.image.height) % BaselineFraction(first)[2] # 0
          /\ context.baseline_y
               # Some(Trunc(context.cursor[2] * BaselineFraction(last)[2]
                             + BaselineFraction(last)[1] * last.image.height,
                           BaselineFraction(last)[2]))

\* C16: when the glyph just placed is of a character that is not
\* alphabetic, or is alphabetic and declares no connection_start strategy,
\* _draw_char recovers: the pending connection is none, no error leaves
\* draw and layout goes on.
C16_NoStartPointRecovered ==
    HasContext =>
        \A k \in DOMAIN context.pastes :
            LET c == text[context.pastes[k].char_n + 1]
            IN (/\ JustPlaced(context.pastes[k])
                /\ (~IsAlpha(c) \/ bounding_boxes[c].connection_start = None))
               => /\ error = NoError
                  /\ pc # "failed"
                  /\ context.connection_start = None

\* The region an alphabetic glyph's ending-point computation scans, the
\* part above the baseline, holds no ink; likewise the bottom half that the
\* FAR_RIGHT_OF_BOTTOM_HALF strategy scans.
NoInkAboveBaseline(p) ==
    \A q \in p.image.ink :
        q[2] >= Trunc(BaselineFraction(p)[1] * p.image.height, BaselineFraction(p)[2])

NoInkInBottomHalf(p) ==
    /\ bounding_boxes[text[p.char_n + 1]].connection_start = Some(FAR_RIGHT_OF_BOTTOM_HALF)
    /\ \A q \in p.image.ink : q[2] < p.image.height \div 2

\* C17: a connector scan that finds no ink is never fatal, also when the
\* part above the baseline or the bottom half has no content at all: no
\* failure of a point computation reaches the caller of draw.
C17_EmptyScanNotFatal ==
    HasContext =>
        \A k \in DOMAIN context.pastes :
            LET p == context.pastes[k]
            IN (/\ JustPlaced(p)
                /\ IsAlpha(text[p.char_n + 1])
                /\ (NoInkAboveBaseline(p) \/ NoInkInBottomHalf(p)))
               => error.type # "AssertionError"

\* _draw_char is about to process a space or a glyph character, and the
\* step leaves a context.
ProcessingOnLine ==
    /\ pc = "chars" /\ char_n < Len(text) /\ text[char_n + 1] # Newline
    /\ HasContext'

\* The step pastes a glyph.
Pastes == Len(context'.pastes) = Len(context.pastes) + 1

\* image.width x (end_x - start_x) of a glyph, as <<numerator, denominator>>.
ExactAdvance(p) ==
    LET bbox == bounding_boxes[text[p.char_n + 1]]
    IN <<p.image.width * (bbox.end_x[1] * bbox.start_x[2] - bbox.start_x[1] * bbox.end_x[2]),
         bbox.end_x[2] * bbox.start_x[2]>>

\* C18, as claimed: within a line cursor x never decreases when a space or
\* a glyph is processed, whatever the metadata, and a glyph advances it by
\* image.width x (end_x - start_x).
C18_CursorMonotone ==
    [][ProcessingOnLine =>
          /\ context'.cursor[1] >= context.cursor[1]
          /\ Pastes =>
                LET adv == ExactAdvance(context'.pastes[Len(context'.pastes)])
                IN (context'.cursor[1] - context.cursor[1]) * adv[2] = adv[1]]_vars

\* C18, amended: a space adds 60 to cursor x; a glyph changes it by
\* int(image.width x (end_x - start_x)), truncated towards zero, which is
\* not negative when end_x >= start_x and moves the cursor left when
\* image.width x (start_x - end_x) is 1 or more; cursor y stays.
C18_CursorAdvance ==
    [][ProcessingOnLine =>
          LET step == context'.cursor[1] - context.cursor[1]
          IN /\ context'.cursor[2] = context.cursor[2]
             /\ text[char_n + 1] = Space => step = 60
             /\ (text[char_n + 1] # Space /\ ~Pastes) => step = 0
             /\ Pastes =>
                   LET adv == ExactAdvance(context'.pastes[Len(context'.pastes)])
                   IN /\ adv[1] >= 0 =>
                            step * adv[2] <= adv[1] /\ adv[1] < (step + 1) * adv[2]
                      /\ adv[1] < 0 =>
                            (step - 1) * adv[2] < adv[1] /\ adv[1] <= step * adv[2]
                      /\ adv[1] <= -adv[2] => step < 0]_vars

\* A glyph whose metadata has end_x < start_x was placed: the cursor is
\* left of where the line began.
C18_Witness ==
    /\ HasContext
    /\ render_n = 1
    /\ LineStart = 0
    /\ Len(context.pastes) >= 1
    /\ context.cursor[1] < CursorStartX

\* A debug line that is the baseline marker: red, horizontal, from x = 0
\* to the width of the canvas.
IsBaselineMarker(l) ==
    /\ l.fill = "red"
    /\ l.xy[1] = <<0, 1>>
    /\ l.xy[3] = <<context.canvas_size[1], 1>>
    /\ l.xy[2] = l.xy[4]

\* C19: a finished debug render of a text with a glyph character, also
\* one that begins with a space or a newline, has drawn exactly one
\* baseline marker, at the bottom edge of the first glyph placed.
C19_OneBaselineMarker ==
    (pc = "done" /\ debug /\ context.pastes # <<>>) =>
        LET first == context.pastes[1]
        IN SelectSeq(context.debug_lines, IsBaselineMarker)
             = <<[char_n |-> first.char_n, fill |-> "red",
                  xy |-> <<<<0, 1>>, <<first.box[2] + first.image.height, 1>>,
                           <<context.canvas_size[1], 1>>,
                           <<first.box[2] + first.image.height, 1>>>>]>>

\* The ink of the bottom half of a glyph's image, in the image's
\* coordinates.
BottomHalfInk(p) == {q \in p.image.ink : q[2] >= p.image.height \div 2}

\* C20: the pending point left by a glyph placed with the
\* FAR_RIGHT_OF_BOTTOM_HALF strategy whose bottom half holds ink is, from
\* the glyph's origin, x = the right edge of the bounding box of the bottom
\* half's content and y = image.height / 2 + the offset of the first ink
\* pixel in the rightmost content column of the bottom half.
C20_FarRightOfBottomHalf ==
    HasContext =>
        \A k \in DOMAIN context.pastes :
            LET p == context.pastes[k]
                c == text[p.char_n + 1]
                right == SetMax({q[1] : q \in BottomHalfInk(p)}) + 1
                first == SetMin({q[2] - p.image.height \div 2 :
                                   q \in {r \in BottomHalfInk(p) : r[1] = right - 1}})
            IN (/\ JustPlaced(p)
                /\ IsAlpha(c)
                /\ bounding_boxes[c].connection_start = Some(FAR_RIGHT_OF_BOTTOM_HALF)
                /\ BottomHalfInk(p) # {}
                /\ error = NoError)
               => context.connection_start
                    = Some(<<p.box[1] + right,
                             p.box[2] + (p.image.height + 2 * first) \div 2>>)

====
